---- MODULE Spec2Model ----
(***************************************************************************)
(* Model of quick-n-dirty-utils (qndUtils): one utility call per           *)
(* behaviour.  The caller picks a function and its arguments (Init); the   *)
(* actions are the steps the function body takes.                          *)
(*                                                                         *)
(* Numbers are multiples of 1/Scale held as integer numerators, so that    *)
(* range(1, 2, 0.5) is start = 2, stop = 4, step = 1 for Scale = 2.  Such  *)
(* values and their sums are exact in JavaScript's number type.  A         *)
(* quotient is a reduced fraction <<n, d>> with d > 0.                     *)
(***************************************************************************)
EXTENDS Integers, Sequences, FiniteSets, TLC

\* ---- bounds of the input domain ----------------------------------------
MaxNeg == 2
MaxNum == 4
MaxStep == 2
Scale == 2
MaxOps == 3

Nums == -MaxNeg..MaxNum
Steps == -MaxStep..MaxStep

\* Length at which the model stops a loop that keeps pushing: one more than
\* the longest sequence a call inside the input domain can produce.
MaxArrayLength == (MaxNum + MaxNeg) + 2

VARIABLES
    call,       \* the function the caller invokes
    nval, nmin, nmax, nres, npc,                 \* normalise(val, min, max)
    start, stop, step, stepGiven, i, result, rpc, \* range(start, stop, step)
    status,     \* restHandler(response): response.status
    bodyText,   \* the characters of the response body
    bodyRead,   \* the body stream: unread, reading, complete, failed
    promise,    \* the promise restHandler returns
    settlements,\* how many times the promise has left the pending state
    hpc,        \* where the handler is
    localStorage, \* the browser's storage: key -> item
    opLog,      \* the setAuthToken / logout calls made so far, oldest first
    authArg,    \* the localStorageKey argument of the last getAuthHeader
    authHeader, \* what the last getAuthHeader returned
    authFresh,  \* no setAuthToken or logout since the last getAuthHeader
    heap,       \* the sort definitions, by reference
    compState,  \* the component state: state key -> reference (0: not set)
    usArgs,     \* the arguments of the last updateSorting call
    usBefore,   \* compState and heap as they were before that call
    usOutcome,  \* how that call ended: none, returned, threw
    sorting,    \* the sorting definition the comparator was made for
    cmpA,       \* the comparator's first argument
    cmpB,       \* the comparator's second argument
    cmpResult,  \* what the comparator call gave: none, a number, an error
    fdDate,     \* the date argument of the last formatDate/formatDateTime call
    fdFormat,   \* its format argument
    fdResult,   \* what the call gave: none, a string, null, an error
    rmOp,       \* none, reverseMapping or keyLookup: the last call
    rmMapping,  \* its mapping argument: the entries, in insertion order
    rmWarn,     \* its showWarning argument
    rmLookup,   \* the lookupValue of keyLookup
    rmResult,   \* what the call returned
    jgObject,   \* the object argument of the last jsonGet call
    jgKey,      \* its key argument
    jgResult,   \* whether it returned, and what
    mlList,     \* the list argument of mapListToKeyObject
    mlKey,      \* its keyOrFunction argument
    mlResult,   \* whether it returned, and what
    lsOp,       \* none, toggleItem, integrateDbItem or removeDbItem: the last call
    lsArg,      \* its second argument: the item, or the id to remove
    lsIdKey,    \* the idKey argument of the calls
    lsBefore,   \* the list as it was when the call was made
    lsList,     \* the array the call was given, after the call
    lsReturned, \* the array the call returned
    lsSame,     \* whether the two are the same array
    qsPrefix,   \* the characters the query starts with
    qsPieces,   \* the parameters the query is made of
    qsQuery,    \* the query argument of getQueryStringParams
    qsResult    \* what the call gave: none, a mapping, an error

vars == <<call, nval, nmin, nmax, nres, npc,
          start, stop, step, stepGiven, i, result, rpc,
          status, bodyText, bodyRead, promise, settlements, hpc,
          localStorage, opLog, authArg, authHeader, authFresh,
          heap, compState, usArgs, usBefore, usOutcome,
          sorting, cmpA, cmpB, cmpResult, fdDate, fdFormat, fdResult,
          rmOp, rmMapping, rmWarn, rmLookup, rmResult,
          jgObject, jgKey, jgResult,
          mlList, mlKey, mlResult,
          lsOp, lsArg, lsIdKey, lsBefore, lsList, lsReturned, lsSame,
          qsPrefix, qsPieces, qsQuery, qsResult>>

normVars == <<nval, nmin, nmax, nres, npc>>
rangeVars == <<start, stop, step, stepGiven, i, result, rpc>>
restVars == <<status, bodyText, bodyRead, promise, settlements, hpc>>
authVars == <<localStorage, opLog, authArg, authHeader, authFresh>>
sortingVars == <<heap, compState, usArgs, usBefore, usOutcome>>
cmpVars == <<sorting, cmpA, cmpB, cmpResult>>
dateVars == <<fdDate, fdFormat, fdResult>>
mapVars == <<rmOp, rmMapping, rmWarn, rmLookup, rmResult>>
getVars == <<jgObject, jgKey, jgResult>>
mapListVars == <<mlList, mlKey, mlResult>>
listVars == <<lsOp, lsArg, lsIdKey, lsBefore, lsList, lsReturned, lsSame>>
queryVars == <<qsPrefix, qsPieces, qsQuery, qsResult>>

\* what a step of one function leaves alone
exceptNorm ==
    <<rangeVars, restVars, authVars, sortingVars,
      cmpVars, dateVars, mapVars, getVars,
      mapListVars, listVars, queryVars>>
exceptRange ==
    <<normVars, restVars, authVars, sortingVars,
      cmpVars, dateVars, mapVars, getVars,
      mapListVars, listVars, queryVars>>
exceptRest ==
    <<normVars, rangeVars, authVars, sortingVars,
      cmpVars, dateVars, mapVars, getVars,
      mapListVars, listVars, queryVars>>
exceptAuth ==
    <<normVars, rangeVars, restVars, sortingVars,
      cmpVars, dateVars, mapVars, getVars,
      mapListVars, listVars, queryVars>>
exceptSorting ==
    <<normVars, rangeVars, restVars, authVars,
      cmpVars, dateVars, mapVars, getVars,
      mapListVars, listVars, queryVars>>
exceptCmp ==
    <<normVars, rangeVars, restVars, authVars,
      sortingVars, dateVars, mapVars, getVars,
      mapListVars, listVars, queryVars>>
exceptDate ==
    <<normVars, rangeVars, restVars, authVars,
      sortingVars, cmpVars, mapVars, getVars,
      mapListVars, listVars, queryVars>>
exceptMap ==
    <<normVars, rangeVars, restVars, authVars,
      sortingVars, cmpVars, dateVars, getVars,
      mapListVars, listVars, queryVars>>
exceptGet ==
    <<normVars, rangeVars, restVars, authVars,
      sortingVars, cmpVars, dateVars, mapVars,
      mapListVars, listVars, queryVars>>
exceptMapList ==
    <<normVars, rangeVars, restVars, authVars,
      sortingVars, cmpVars, dateVars, mapVars,
      getVars, listVars, queryVars>>
exceptList ==
    <<normVars, rangeVars, restVars, authVars,
      sortingVars, cmpVars, dateVars, mapVars,
      getVars, mapListVars, queryVars>>
exceptQuery ==
    <<normVars, rangeVars, restVars, authVars,
      sortingVars, cmpVars, dateVars, mapVars,
      getVars, mapListVars, listVars>>

\* ---- arithmetic helpers -------------------------------------------------
Abs(x) == IF x < 0 THEN -x ELSE x

RECURSIVE Gcd(_, _)
Gcd(a, b) == IF b = 0 THEN a ELSE Gcd(b, a % b)

\* the JavaScript quotient n / d (d # 0) as a reduced fraction
Quot(n, d) ==
    LET g == Gcd(Abs(n), Abs(d))
        s == IF d < 0 THEN -1 ELSE 1
    IN  <<(s * n) \div g, (s * d) \div g>>

Zero == <<0, 1>>
One == <<1, 1>>
\* 0 / 0
NaN == <<0, 0>>
\* no value yet
Undefined == <<0, -1>>

\* ---- normalise ----------------------------------------------------------
\* variant: the bounds are always exchanged
normalise_swapped(val, min, max) ==
    IF val < min THEN Zero
    ELSE IF val > max THEN One
    ELSE IF max = min THEN One
    ELSE Quot(val - max, min - max)

\* variant: no test for max === min, the quotient is 0 / 0
normalise_nodegenerate(val, min, max) ==
    IF val < min THEN Zero
    ELSE IF val > max THEN One
    ELSE IF max = min THEN NaN
    ELSE Quot(val - min, max - min)

\* variant: the upper clamp is tested before the lower one
normalise_upperfirst(val, min, max) ==
    IF val > max THEN One
    ELSE IF val < min THEN Zero
    ELSE IF max = min THEN One
    ELSE Quot(val - min, max - min)

normalise(val, min, max) ==
    IF val < min THEN Zero
    ELSE IF val > max THEN One
    ELSE LET minValue == IF max < min THEN max ELSE min
             maxValue == IF max < min THEN min ELSE max
         IN  IF max = min THEN One
             ELSE Quot(val - minValue, maxValue - minValue)

NormaliseIdle ==
    /\ nval = 0 /\ nmin = 0 /\ nmax = 0 /\ nres = Undefined /\ npc = "idle"

NormaliseInit ==
    /\ nval \in Nums /\ nmin \in Nums /\ nmax \in Nums
    /\ nres = Undefined
    /\ npc = "call"

Normalise ==
    /\ call = "normalise"
    /\ npc = "call"
    /\ nres' = normalise(nval, nmin, nmax)
    /\ npc' = "done"
    /\ UNCHANGED <<call, nval, nmin, nmax>>
    /\ UNCHANGED exceptNorm

\* ---- range --------------------------------------------------------------
\* step = 1 when the argument is omitted
DefaultStep == 1 * Scale

rangeMismatch(a, b, s) == (a > b /\ s > 0) \/ (a < b /\ s < 0)

\* variant: the stop value is excluded
compareFunction_strict(x) ==
    IF step < 0 THEN x > stop ELSE x < stop

compareFunction(x) ==
    IF step < 0 THEN x >= stop ELSE x <= stop

RangeIdle ==
    /\ start = 0 /\ stop = 0 /\ step = DefaultStep /\ stepGiven = FALSE
    /\ i = 0 /\ result = <<>>
    /\ rpc = "idle"

RangeInit ==
    /\ start \in Nums /\ stop \in Nums
    /\ stepGiven \in BOOLEAN
    /\ step \in (IF stepGiven THEN Steps ELSE {DefaultStep})
    /\ i = 0 /\ result = <<>>
    /\ rpc = "call"

\* variant: the first element is pushed before the direction is tested
RangeEnter_seeded ==
    /\ call = "range"
    /\ rpc = "call"
    /\ result' = <<start>>
    /\ IF rangeMismatch(start, stop, step)
       THEN rpc' = "done" /\ i' = i
       ELSE rpc' = "loop" /\ i' = start + step
    /\ UNCHANGED <<call, start, stop, step, stepGiven>>
    /\ UNCHANGED exceptRange

\* const result = []; the direction test; the loop initialiser i = start
RangeEnter ==
    /\ call = "range"
    /\ rpc = "call"
    /\ result' = <<>>
    /\ IF rangeMismatch(start, stop, step)
       THEN rpc' = "done" /\ i' = i
       ELSE rpc' = "loop" /\ i' = start
    /\ UNCHANGED <<call, start, stop, step, stepGiven>>
    /\ UNCHANGED exceptRange

\* one iteration of the for loop: result.push(i); i += step
RangeIterate ==
    /\ call = "range"
    /\ rpc = "loop"
    /\ compareFunction(i)
    /\ Len(result) < MaxArrayLength
    /\ result' = Append(result, i)
    /\ i' = i + step
    /\ UNCHANGED <<call, start, stop, step, stepGiven, rpc>>
    /\ UNCHANGED exceptRange

\* the loop condition fails: return result
RangeReturn ==
    /\ call = "range"
    /\ rpc = "loop"
    /\ ~compareFunction(i)
    /\ rpc' = "done"
    /\ UNCHANGED <<call, start, stop, step, stepGiven, i, result>>
    /\ UNCHANGED exceptRange

\* the loop is still running with the array at the length no terminating
\* call of the input domain reaches: it keeps pushing until the engine
\* runs out of memory and never returns
RangeRunaway ==
    /\ call = "range"
    /\ rpc = "loop"
    /\ compareFunction(i)
    /\ Len(result) >= MaxArrayLength
    /\ rpc' = "runaway"
    /\ UNCHANGED <<call, start, stop, step, stepGiven, i, result>>
    /\ UNCHANGED exceptRange

\* ---- JSON.parse ---------------------------------------------------------
\* Texts are sequences of characters.  The parser covers the JSON subset the
\* bodies below use: unsigned integers, strings without escapes, and objects
\* of string keys, with no white space between tokens.
Digits == <<"0", "1", "2", "3", "4", "5", "6", "7", "8", "9">>
IsDigit(c) == \E k \in 1..10 : Digits[k] = c
DigitValue(c) == (CHOOSE k \in 1..10 : Digits[k] = c) - 1

JSUndefined == [type |-> "undefined"]
JSNumber(n) == [type |-> "number", num |-> n]
JSString(chars) == [type |-> "string", str |-> chars]
JSObject(members) == [type |-> "object", members |-> members]
JSNull == [type |-> "null"]
JSBoolean(b) == [type |-> "boolean", bool |-> b]
JSFunction == [type |-> "function"]
JSError(name) == [type |-> "error", name |-> name]
JSPendingPromise == [type |-> "promise", state |-> "pending"]

ParseFail == [ok |-> FALSE, value |-> JSUndefined, next |-> 0]
ParseOk(v, n) == [ok |-> TRUE, value |-> v, next |-> n]

RECURSIVE ScanDigits(_, _, _)
ScanDigits(t, pos, acc) ==
    IF pos <= Len(t) /\ IsDigit(t[pos])
    THEN ScanDigits(t, pos + 1, acc * 10 + DigitValue(t[pos]))
    ELSE ParseOk(JSNumber(acc), pos)

\* a number: one or more digits, no leading zero
ParseNumber(t, pos) ==
    IF t[pos] = "0"
    THEN IF pos + 1 <= Len(t) /\ IsDigit(t[pos + 1])
         THEN ParseFail
         ELSE ParseOk(JSNumber(0), pos + 1)
    ELSE ScanDigits(t, pos, 0)

RECURSIVE ScanString(_, _, _)
ScanString(t, pos, acc) ==
    IF pos > Len(t) THEN ParseFail
    ELSE IF t[pos] = "\"" THEN ParseOk(JSString(acc), pos + 1)
    ELSE IF t[pos] = "\\" THEN ParseFail
    ELSE ScanString(t, pos + 1, Append(acc, t[pos]))

\* a string: the characters between two double quotes
ParseString(t, pos) ==
    IF pos <= Len(t) /\ t[pos] = "\"" THEN ScanString(t, pos + 1, <<>>)
    ELSE ParseFail

RECURSIVE ParseValue(_, _)
RECURSIVE ParseMembers(_, _, _)

\* "key":value followed by , or }; a repeated key keeps the last value
ParseMembers(t, pos, acc) ==
    LET k == ParseString(t, pos) IN
    IF ~k.ok \/ k.next > Len(t) \/ t[k.next] # ":" THEN ParseFail
    ELSE LET v == ParseValue(t, k.next + 1) IN
         IF ~v.ok \/ v.next > Len(t) THEN ParseFail
         ELSE LET members == (k.value.str :> v.value) @@ acc IN
              IF t[v.next] = "}" THEN ParseOk(JSObject(members), v.next + 1)
              ELSE IF t[v.next] = "," THEN ParseMembers(t, v.next + 1, members)
              ELSE ParseFail

ParseValue(t, pos) ==
    IF pos > Len(t) THEN ParseFail
    ELSE IF IsDigit(t[pos]) THEN ParseNumber(t, pos)
    ELSE IF t[pos] = "\"" THEN ParseString(t, pos)
    ELSE IF t[pos] = "{"
         THEN IF pos + 1 <= Len(t) /\ t[pos + 1] = "}"
              THEN ParseOk(JSObject(<<>>), pos + 2)
              ELSE ParseMembers(t, pos + 1, <<>>)
    ELSE ParseFail

\* JSON.parse(text): the value, or ok = FALSE where it throws SyntaxError
JSONParse(t) ==
    LET r == ParseValue(t, 1) IN
    IF r.ok /\ r.next = Len(t) + 1
    THEN [ok |-> TRUE, value |-> r.value]
    ELSE [ok |-> FALSE, value |-> JSUndefined]

\* ---- restHandler --------------------------------------------------------
ErrorThreshold == 400

BodyNotFound == <<"{", "\"", "e", "r", "r", "o", "r", "\"", ":", "\"", "n", "o", "t", " ", "f", "o", "u", "n", "d", "\"", "}">>
BodyNumber == <<"4", "2">>
BodyString == <<"\"", "o", "k", "\"">>
BodyTwo == <<"{", "\"", "a", "\"", ":", "1", ",", "\"", "b", "\"", ":", "\"", "x", "\"", "}">>
BodyPlain == <<"o", "o", "p", "s">>
BodyTruncated == <<"{", "\"", "a", "\"", ":", "1">>
BodyEmpty == <<>>

Statuses == {200, ErrorThreshold - 1, ErrorThreshold, 404, 500}
BodyTexts == {BodyNotFound, BodyNumber, BodyString, BodyTwo, BodyPlain,
              BodyTruncated, BodyEmpty}

PendingPromise == [state |-> "pending", value |-> JSUndefined]

\* resolve(value) / reject(reason) on a promise: only a pending promise moves
Fulfil(p, v) ==
    IF p.state = "pending" THEN [state |-> "fulfilled", value |-> v] ELSE p
Reject(p, r) ==
    IF p.state = "pending" THEN [state |-> "rejected", value |-> r] ELSE p
Moved(p, q) == IF p.state = "pending" /\ q.state # "pending" THEN 1 ELSE 0

\* variant: status 400 still counts as a success
isErrorStatus_above(st) == st > ErrorThreshold

\* response.status >= 400
isErrorStatus(st) == st >= ErrorThreshold

\* variant: the body is handed over as text without trying JSON.parse
rejectionBody_raw(text) == JSString(text)

\* the try / catch of the text callback: parsed JSON, else the raw text
rejectionBody(text) ==
    LET parsed == JSONParse(text) IN
    IF parsed.ok THEN parsed.value ELSE JSString(text)

RestIdle ==
    /\ status = 0 /\ bodyText = <<>> /\ bodyRead = "unread"
    /\ promise = PendingPromise /\ settlements = 0 /\ hpc = "idle"

RestInit ==
    /\ status \in Statuses /\ bodyText \in BodyTexts
    /\ bodyRead = "unread"
    /\ promise = PendingPromise /\ settlements = 0
    /\ hpc = "call"

\* variant: the promise is rejected at once, carrying the unread body
RestHandler_eager ==
    /\ call = "restHandler"
    /\ hpc = "call"
    /\ bodyRead' = "reading"
    /\ IF isErrorStatus(status)
       THEN LET q == Reject(promise, [status |-> status,
                                      message |-> JSPendingPromise])
            IN  /\ promise' = q
                /\ settlements' = settlements + Moved(promise, q)
                /\ hpc' = "done"
       ELSE /\ hpc' = "awaitJson"
            /\ UNCHANGED <<promise, settlements>>
    /\ UNCHANGED <<call, status, bodyText>>
    /\ UNCHANGED exceptRest

\* the executor of new Promise(...): for an error status start
\* response.text() and register the callback; otherwise resolve the promise
\* with response.json(), whose outcome it will follow
RestHandler ==
    /\ call = "restHandler"
    /\ hpc = "call"
    /\ bodyRead' = "reading"
    /\ hpc' = IF isErrorStatus(status) THEN "awaitText" ELSE "awaitJson"
    /\ UNCHANGED <<call, status, bodyText, promise, settlements>>
    /\ UNCHANGED exceptRest

\* the body stream ends: all of it has arrived, or the read failed
BodyReadEnds ==
    /\ call = "restHandler"
    /\ bodyRead = "reading"
    /\ \E ok \in BOOLEAN : bodyRead' = IF ok THEN "complete" ELSE "failed"
    /\ UNCHANGED <<call, status, bodyText, promise, settlements, hpc>>
    /\ UNCHANGED exceptRest

\* response.text() fulfilled: the callback rejects with {status, body}
TextCallback ==
    /\ call = "restHandler"
    /\ hpc = "awaitText"
    /\ bodyRead = "complete"
    /\ LET q == Reject(promise, [status |-> status,
                                 body |-> rejectionBody(bodyText)])
       IN  /\ promise' = q
           /\ settlements' = settlements + Moved(promise, q)
    /\ hpc' = "done"
    /\ UNCHANGED <<call, status, bodyText, bodyRead>>
    /\ UNCHANGED exceptRest

\* response.json() settled: the returned promise takes its outcome
JsonSettles ==
    /\ call = "restHandler"
    /\ hpc = "awaitJson"
    /\ bodyRead \in {"complete", "failed"}
    /\ LET parsed == JSONParse(bodyText)
           q == IF bodyRead = "failed"
                THEN Reject(promise, JSError("TypeError"))
                ELSE IF parsed.ok THEN Fulfil(promise, parsed.value)
                ELSE Reject(promise, JSError("SyntaxError"))
       IN  /\ promise' = q
           /\ settlements' = settlements + Moved(promise, q)
    /\ hpc' = "done"
    /\ UNCHANGED <<call, status, bodyText, bodyRead>>
    /\ UNCHANGED exceptRest

\* ---- setAuthToken / logout / getAuthHeader ------------------------------
LS_AUTH_KEY == "auth_token"

\* an argument the caller leaves out
Omitted == "<omitted>"
\* localStorage.getItem of a key that holds no item: null
NoItem == "<null>"

StorageKeys == {LS_AUTH_KEY, "my_token"}
KeyArgs == StorageKeys \cup {Omitted}
Tokens == {"Basic x9fah736mad", "Bearer abc"}

\* localStorageKey = LS_AUTH_KEY
keyOrDefault(k) == IF k = Omitted THEN LS_AUTH_KEY ELSE k

AuthIdle ==
    /\ localStorage = [k \in StorageKeys |-> NoItem]
    /\ opLog = <<>> /\ authArg = Omitted
    /\ authHeader = [Authorization |-> NoItem] /\ authFresh = FALSE

AuthInit == AuthIdle

\* localStorage.setItem(localStorageKey, token)
SetAuthToken ==
    /\ call = "auth"
    /\ Len(opLog) < MaxOps
    /\ \E token \in Tokens, k \in KeyArgs :
         /\ localStorage' = [localStorage EXCEPT ![keyOrDefault(k)] = token]
         /\ opLog' = Append(opLog, [op |-> "setAuthToken", key |-> k,
                                    token |-> token])
    /\ authFresh' = FALSE
    /\ UNCHANGED <<call, authArg, authHeader>>
    /\ UNCHANGED exceptAuth

\* variant: logout always clears the default key
Logout_defaultOnly ==
    /\ call = "auth"
    /\ Len(opLog) < MaxOps
    /\ \E k \in KeyArgs :
         /\ localStorage' = [localStorage EXCEPT ![LS_AUTH_KEY] = NoItem]
         /\ opLog' = Append(opLog, [op |-> "logout", key |-> k,
                                    token |-> NoItem])
    /\ authFresh' = FALSE
    /\ UNCHANGED <<call, authArg, authHeader>>
    /\ UNCHANGED exceptAuth

\* localStorage.removeItem(localStorageKey)
Logout ==
    /\ call = "auth"
    /\ Len(opLog) < MaxOps
    /\ \E k \in KeyArgs :
         /\ localStorage' = [localStorage EXCEPT ![keyOrDefault(k)] = NoItem]
         /\ opLog' = Append(opLog, [op |-> "logout", key |-> k,
                                    token |-> NoItem])
    /\ authFresh' = FALSE
    /\ UNCHANGED <<call, authArg, authHeader>>
    /\ UNCHANGED exceptAuth

\* { Authorization: localStorage.getItem(localStorageKey) }
GetAuthHeader ==
    /\ call = "auth"
    /\ \E k \in KeyArgs :
         /\ authArg' = k
         /\ authHeader' = [Authorization |-> localStorage[keyOrDefault(k)]]
    /\ authFresh' = TRUE
    /\ UNCHANGED <<call, localStorage, opLog>>
    /\ UNCHANGED exceptAuth

\* ---- initSorting / updateSorting --------------------------------------
ASC == "asc"
DESC == "desc"
\* null or undefined
Null == "<null>"

SortKeys == {"name", "date"}
StateKeys == {"sorting", "tableSort"}
DirectionArgs == {Null, ASC, DESC}
\* the object each state key refers to when it is set
RefOf(sk) == IF sk = "sorting" THEN 1 ELSE 2
Refs == {RefOf(sk) : sk \in StateKeys}

\* variant: a missing direction stays missing
directionOrDefault_none(d) == d

\* variant: a missing direction becomes descending
directionOrDefault_desc(d) == IF d = Null THEN DESC ELSE d

\* if (defaultDirection == null) defaultDirection = SORT_DIRECTIONS.ASC
directionOrDefault(d) == IF d = Null THEN ASC ELSE d

initSorting(sortKey, defaultDirection) ==
    [key |-> IF sortKey = Null THEN "date" ELSE sortKey,
     direction |-> directionOrDefault(defaultDirection)]

\* variant: the direction is set to descending instead of being reversed
reverseDirection_stuck(d) == DESC

\* direction === ASC ? DESC : ASC
reverseDirection(d) == IF d = ASC THEN DESC ELSE ASC

Returned(st, hp) == [outcome |-> "returned", state |-> st, heap |-> hp]
\* self.initSorting is not a function of the global object: TypeError
Threw(st, hp) == [outcome |-> "threw", state |-> st, heap |-> hp]

\* the returned stateUpdate is a shallow copy: it holds the references of
\* oldState, and the sort definition is changed in place on the heap
updateSorting(oldState, hp, sortKey, stateKeyArg, defaultDirectionArg) ==
    LET stateKey == IF stateKeyArg = Null THEN "sorting" ELSE stateKeyArg
        defaultDirection == directionOrDefault(defaultDirectionArg)
        stateUpdate == oldState
        existingSorting == oldState[stateKey]
    IN  IF existingSorting = 0
        THEN Threw(oldState, hp)
        ELSE IF hp[existingSorting].key = sortKey
        THEN Returned(stateUpdate,
                 [hp EXCEPT ![existingSorting].direction = reverseDirection(@)])
        ELSE Returned(stateUpdate,
                 [hp EXCEPT ![existingSorting] =
                     [key |-> sortKey, direction |-> defaultDirection]])

NoArgs == [sortKey |-> Null, stateKey |-> Null, defaultDirection |-> Null]
FreeSlot == [key |-> "date", direction |-> ASC]

SortingIdle ==
    /\ heap = [r \in Refs |-> FreeSlot]
    /\ compState = [sk \in StateKeys |-> 0]
    /\ usArgs = NoArgs
    /\ usBefore = [state |-> compState, heap |-> heap]
    /\ usOutcome = "none"

\* every state key is not set, or holds what initSorting returned
SortingInit ==
    /\ compState \in [StateKeys -> {0} \cup Refs]
    /\ \A sk \in StateKeys : compState[sk] \in {0, RefOf(sk)}
    /\ heap \in [Refs -> {initSorting(k, d) :
                            k \in SortKeys \cup {Null}, d \in DirectionArgs}]
    /\ \A sk \in StateKeys : compState[sk] = 0 => heap[RefOf(sk)] = FreeSlot
    /\ usArgs = NoArgs
    /\ usBefore = [state |-> compState, heap |-> heap]
    /\ usOutcome = "none"

\* this.setState(oldState => util.updateSorting(oldState, sortKey, ...))
UpdateSorting ==
    /\ call = "updateSorting"
    /\ \E sortKey \in SortKeys, stateKey \in StateKeys \cup {Null},
          defaultDirection \in DirectionArgs :
         LET r == updateSorting(compState, heap, sortKey, stateKey,
                                defaultDirection)
         IN  /\ usArgs' = [sortKey |-> sortKey, stateKey |-> stateKey,
                           defaultDirection |-> defaultDirection]
             /\ usBefore' = [state |-> compState, heap |-> heap]
             /\ usOutcome' = r.outcome
             /\ compState' = r.state
             /\ heap' = r.heap
    /\ UNCHANGED call
    /\ UNCHANGED exceptSorting

\* ---- JavaScript values: property access and conversions ---------------
\* a property of a value; reading one of null or undefined is a TypeError
IsNullish(v) == v.type \in {"undefined", "null"}
Get(v, k) ==
    IF v.type = "object" /\ k \in DOMAIN v.members THEN v.members[k]
    ELSE JSUndefined

Truthy(v) ==
    CASE v.type = "boolean" -> v.bool
      [] v.type = "number" -> v.num # 0
      [] v.type = "string" -> v.str # <<>>
      [] v.type = "object" -> TRUE
      [] OTHER -> FALSE

RECURSIVE DigitsOf(_)
DigitsOf(n) ==
    IF n < 10 THEN <<Digits[n + 1]>>
    ELSE DigitsOf(n \div 10) \o <<Digits[(n % 10) + 1]>>

StrUndefined == <<"u", "n", "d", "e", "f", "i", "n", "e", "d">>
StrNull == <<"n", "u", "l", "l">>
StrTrue == <<"t", "r", "u", "e">>
StrFalse == <<"f", "a", "l", "s", "e">>
StrObject == <<"[", "o", "b", "j", "e", "c", "t", " ", "O", "b", "j", "e", "c", "t", "]">>

\* String(value), as a template literal computes it
JSToString(v) ==
    CASE v.type = "string" -> v.str
      [] v.type = "number" ->
           IF v.num < 0 THEN <<"-">> \o DigitsOf(-v.num) ELSE DigitsOf(v.num)
      [] v.type = "boolean" -> IF v.bool THEN StrTrue ELSE StrFalse
      [] v.type = "null" -> StrNull
      [] v.type = "undefined" -> StrUndefined
      [] OTHER -> StrObject

\* a number or NaN
Num(n) == [nan |-> FALSE, num |-> n]
NotANumber == [nan |-> TRUE, num |-> 0]

RECURSIVE DigitsValue(_)
DigitsValue(t) ==
    IF t = <<>> THEN 0
    ELSE 10 * DigitsValue(SubSeq(t, 1, Len(t) - 1)) + DigitValue(t[Len(t)])

\* Number(value), as the subtraction operator computes it
ToNumber(v) ==
    CASE v.type = "number" -> Num(v.num)
      [] v.type = "boolean" -> Num(IF v.bool THEN 1 ELSE 0)
      [] v.type = "null" -> Num(0)
      [] v.type = "string" ->
           IF \A k \in 1..Len(v.str) : IsDigit(v.str[k])
           THEN Num(DigitsValue(v.str)) ELSE NotANumber
      [] OTHER -> NotANumber

Subtract(x, y) ==
    IF ToNumber(x).nan \/ ToNumber(y).nan THEN NotANumber
    ELSE Num(ToNumber(x).num - ToNumber(y).num)

\* ---- String.prototype.localeCompare ------------------------------------
Lower == <<"a", "b", "c", "d", "e", "f", "g", "h", "i", "j", "k", "l", "m", "n", "o", "p", "q", "r", "s", "t", "u", "v", "w", "x", "y", "z">>
Upper == <<"A", "B", "C", "D", "E", "F", "G", "H", "I", "J", "K", "L", "M", "N", "O", "P", "Q", "R", "S", "T", "U", "V", "W", "X", "Y", "Z">>
IsUpper(c) == \E k \in 1..26 : Upper[k] = c
LetterRank(c) == CHOOSE k \in 1..26 : Lower[k] = c \/ Upper[k] = c

\* the letters decide first, whatever their case
RECURSIVE ComparePrimary(_, _)
ComparePrimary(s, t) ==
    IF s = <<>> /\ t = <<>> THEN 0
    ELSE IF s = <<>> THEN -1
    ELSE IF t = <<>> THEN 1
    ELSE IF LetterRank(s[1]) < LetterRank(t[1]) THEN -1
    ELSE IF LetterRank(s[1]) > LetterRank(t[1]) THEN 1
    ELSE ComparePrimary(Tail(s), Tail(t))

\* between strings of the same letters, lower case comes first
RECURSIVE CompareCase(_, _)
CompareCase(s, t) ==
    IF s = <<>> \/ t = <<>> THEN 0
    ELSE IF ~IsUpper(s[1]) /\ IsUpper(t[1]) THEN -1
    ELSE IF IsUpper(s[1]) /\ ~IsUpper(t[1]) THEN 1
    ELSE CompareCase(Tail(s), Tail(t))

\* the argument is converted to a string
localeCompare(s, other) ==
    IF ComparePrimary(s, JSToString(other)) # 0
    THEN ComparePrimary(s, JSToString(other))
    ELSE CompareCase(s, JSToString(other))

\* ---- sort ---------------------------------------------------------------
KeyName == <<"n", "a", "m", "e">>
KeyLevel == <<"l", "e", "v", "e", "l">>
KeyIsAdmin == <<"i", "s", "A", "d", "m", "i", "n">>
KeyDept == <<"d", "e", "p", "t">>
KeyDeptName == <<"d", "e", "p", "t", ".", "n", "a", "m", "e">>

Obj1(k1, v1) == JSObject([k \in {k1} |-> v1])
Obj4(name, level, isAdmin, dept) ==
    JSObject([k \in {KeyName, KeyLevel, KeyIsAdmin, KeyDept} |->
                 IF k = KeyName THEN JSString(name)
                 ELSE IF k = KeyLevel THEN JSNumber(level)
                 ELSE IF k = KeyIsAdmin THEN JSBoolean(isAdmin)
                 ELSE dept])

Peter == Obj4(<<"P", "e", "t", "e", "r">>, 5, TRUE, Obj1(KeyName, JSString(<<"I", "T">>)))
Janine == Obj4(<<"J", "a", "n", "i", "n", "e">>, 4, FALSE, Obj1(KeyName, JSString(<<"I", "T">>)))
Paul == Obj4(<<"P", "a", "u", "l">>, 3, FALSE, Obj1(KeyName, JSString(<<"H", "R">>)))
\* same letters as Paul, no department
PaulLower == Obj4(<<"p", "a", "u", "l">>, 3, TRUE, JSNull)
\* a record with none of the keys
Blank == JSObject([k \in {} |-> JSUndefined])
\* a record whose department has no name
Temp == Obj1(KeyDept, Blank)

Items == {Peter, Janine, Paul, PaulLower, Blank, Temp}
stringKeys == {KeyName, KeyDeptName}
booleanKeys == {KeyIsAdmin}
CmpKeys == {KeyName, KeyLevel, KeyIsAdmin, KeyDeptName}

\* key.split(".")
RECURSIVE Split(_, _)
Split(key, acc) ==
    IF key = <<>> THEN <<acc>>
    ELSE IF key[1] = "." THEN <<acc>> \o Split(Tail(key), <<>>)
    ELSE Split(Tail(key), Append(acc, key[1]))

includesDot(key) == \E k \in 1..Len(key) : key[k] = "."

\* the forEach over the sub keys: a null or undefined value is kept
RECURSIVE Descend(_, _)
Descend(v, subKeys) ==
    IF subKeys = <<>> THEN v
    ELSE Descend(IF IsNullish(v) THEN v ELSE Get(v, subKeys[1]), Tail(subKeys))

CmpNone == [outcome |-> "none", nan |-> FALSE, num |-> 0]
CmpReturned(n) == [outcome |-> "returned", nan |-> n.nan, num |-> n.num]
\* aVal.localeCompare where aVal is no string: TypeError
CmpThrew == [outcome |-> "threw", nan |-> FALSE, num |-> 0]

callLocaleCompare(x, y) ==
    IF x.type = "string" THEN CmpReturned(Num(localeCompare(x.str, y)))
    ELSE CmpThrew

\* variant: false first in ascending order
booleanCompare_falseFirst(direction, aVal) ==
    IF direction = ASC THEN (IF Truthy(aVal) THEN 1 ELSE -1)
    ELSE (IF Truthy(aVal) THEN -1 ELSE 1)

booleanCompare(direction, aVal) ==
    IF direction = ASC THEN (IF Truthy(aVal) THEN -1 ELSE 1)
    ELSE (IF Truthy(aVal) THEN 1 ELSE -1)

\* the lambda sort(sortDef, stringKeys, booleanKeys) returns, applied to a, b
sort(sortDef, a, b) ==
    LET key == sortDef.key
        direction == sortDef.direction
        aVal == IF includesDot(key) THEN Descend(a, Split(key, <<>>))
                ELSE Get(a, key)
        bVal == IF includesDot(key) THEN Descend(b, Split(key, <<>>))
                ELSE Get(b, key)
    IN  IF key \in stringKeys
        THEN IF direction = ASC THEN callLocaleCompare(aVal, bVal)
             ELSE callLocaleCompare(bVal, aVal)
        ELSE IF key \in booleanKeys
        THEN CmpReturned(Num(booleanCompare(direction, aVal)))
        ELSE IF direction = ASC THEN CmpReturned(Subtract(aVal, bVal))
        ELSE CmpReturned(Subtract(bVal, aVal))

CmpIdle ==
    /\ sorting = [key |-> KeyName, direction |-> ASC]
    /\ cmpA = Blank
    /\ cmpB = Blank
    /\ cmpResult = CmpNone

CmpInit == CmpIdle

\* one call of the comparator, as Array.prototype.sort makes it
Compare ==
    /\ call = "sort"
    /\ \E key \in CmpKeys, direction \in {ASC, DESC}, a \in Items, b \in Items :
         /\ sorting' = [key |-> key, direction |-> direction]
         /\ cmpA' = a
         /\ cmpB' = b
         /\ cmpResult' = sort(sorting', a, b)
    /\ UNCHANGED call
    /\ UNCHANGED exceptCmp

\* ---- formatDate / formatDateTime ------------------------------------
DATE_FORMAT == "yyyy-MM-dd"
DATE_TIME_FORMAT == "dd/MM/yy T"
FormatArgs == {Omitted, "dd.MM.yyyy"}

\* timestamps count units of 10^8: 5000000000 is 50
SecondsLimit == 50
MillisPerSecond == 1000
Parsers == <<"fromISO", "fromSQL", "fromRFC2822">>

\* a date argument: its kind, whether the object is a valid date, whether
\* the number is NaN, its timestamp, and the parsers that accept the string
DateArg(kind, valid, nan, ts, accepts) ==
    [kind |-> kind, valid |-> valid, nan |-> nan, ts |-> ts,
     accepts |-> accepts]
JSDate(valid, ts) == DateArg("Date", valid, ~valid, ts, {})
NumberArg(n) == DateArg("number", TRUE, FALSE, n, {})
NaNArg == DateArg("number", FALSE, TRUE, 0, {})
StringArg(ts, accepts) == DateArg("string", accepts # {}, FALSE, ts, accepts)
MomentArg(valid, seconds) == DateArg("moment", valid, ~valid, seconds, {})
LuxonArg(valid, ts) == DateArg("DateTime", valid, ~valid, ts, {})
NullArg == DateArg("null", FALSE, FALSE, 0, {})
UndefinedArg == DateArg("undefined", FALSE, FALSE, 0, {})
PlainObjectArg == DateArg("object", FALSE, FALSE, 0, {})

DateArgs ==
    {JSDate(TRUE, 16000), JSDate(FALSE, 0),
     NumberArg(0), NumberArg(16), NumberArg(49), NumberArg(50),
     NumberArg(16000), NaNArg,
     StringArg(16000, {"fromISO", "fromSQL"}), StringArg(16000, {"fromSQL"}),
     StringArg(16000, {"fromRFC2822"}), StringArg(0, {}),
     MomentArg(TRUE, 16), MomentArg(FALSE, 0),
     LuxonArg(TRUE, 16000), LuxonArg(FALSE, 0),
     NullArg, UndefinedArg, PlainObjectArg}

\* luxon: an invalid Date gives an invalid DateTime
fromJSDate(date) == LuxonArg(date.valid, date.ts)
fromSeconds(date) == LuxonArg(TRUE, date.ts * MillisPerSecond)
\* luxon: a NaN timestamp gives an invalid DateTime
fromMillis(date) == LuxonArg(~date.nan, date.ts)
parse(fn, date) == LuxonArg(fn \in date.accepts, date.ts)
\* moment: unix() of an invalid moment is NaN
unix(date) == IF date.valid THEN NumberArg(date.ts) ELSE NaNArg

FdNone == [outcome |-> "none", isNull |-> FALSE, ts |-> 0, format |-> ""]
FdString(ts, format) ==
    [outcome |-> "returned", isNull |-> FALSE, ts |-> ts, format |-> format]
FdNull == [outcome |-> "returned", isNull |-> TRUE, ts |-> 0, format |-> ""]
\* Error("Provided string date could not be detected, ...")
FdError == [outcome |-> "threw", isNull |-> FALSE, ts |-> 0, format |-> "Error"]
\* reading a property of null or undefined
FdTypeError ==
    [outcome |-> "threw", isNull |-> FALSE, ts |-> 0, format |-> "TypeError"]

\* the first parser, from position n on, that gives a valid DateTime
RECURSIVE firstValid(_, _)
firstValid(date, n) ==
    IF n > Len(Parsers) THEN 0
    ELSE IF parse(Parsers[n], date).valid THEN n
    ELSE firstValid(date, n + 1)

\* less-than on numbers: false for NaN
lessThan(date, limit) == ~date.nan /\ date.ts < limit

RECURSIVE formatDate(_, _)
formatDate(date, dateFormatArg) ==
    LET dateFormat == IF dateFormatArg = Omitted THEN DATE_FORMAT
                      ELSE dateFormatArg
    IN  IF date.kind = "Date"
        THEN formatDate(fromJSDate(date), dateFormat)
        ELSE IF date.kind = "number"
        THEN IF lessThan(date, SecondsLimit)
             THEN formatDate(fromSeconds(date), dateFormat)
             ELSE formatDate(fromMillis(date), dateFormat)
        ELSE IF date.kind = "string"
        THEN IF firstValid(date, 1) # 0
             THEN formatDate(parse(Parsers[firstValid(date, 1)], date),
                             dateFormat)
             ELSE FdError
        ELSE IF date.kind \in {"null", "undefined"}
        THEN FdTypeError
        ELSE IF date.kind = "moment"
        THEN formatDate(unix(date), dateFormat)
        ELSE IF date.kind = "DateTime" /\ date.valid
        THEN FdString(date.ts, dateFormat)
        ELSE FdNull

formatDateTime(date, dateTimeFormatArg) ==
    formatDate(date, IF dateTimeFormatArg = Omitted THEN DATE_TIME_FORMAT
                     ELSE dateTimeFormatArg)

DateIdle ==
    /\ fdDate = NullArg
    /\ fdFormat = Omitted
    /\ fdResult = FdNone

DateInit == DateIdle

FormatDate ==
    /\ call = "formatDate"
    /\ \E date \in DateArgs, dateFormat \in FormatArgs :
         /\ fdDate' = date
         /\ fdFormat' = dateFormat
         /\ fdResult' = formatDate(date, dateFormat)
    /\ UNCHANGED call
    /\ UNCHANGED exceptDate

FormatDateTime ==
    /\ call = "formatDate"
    /\ \E date \in DateArgs, dateTimeFormat \in FormatArgs :
         /\ fdDate' = date
         /\ fdFormat' = dateTimeFormat
         /\ fdResult' = formatDateTime(date, dateTimeFormat)
    /\ UNCHANGED call
    /\ UNCHANGED exceptDate

\* ---- reverseMapping / keyLookup ----------------------------------------
MaxEntries == 2

\* the properties every object inherits from Object.prototype
ObjectPrototypeNames ==
    {<<"c", "o", "n", "s", "t", "r", "u", "c", "t", "o", "r">>,
     <<"h", "a", "s", "O", "w", "n", "P", "r", "o", "p", "e", "r", "t", "y">>,
     <<"i", "s", "P", "r", "o", "t", "o", "t", "y", "p", "e", "O", "f">>,
     <<"p", "r", "o", "p", "e", "r", "t", "y", "I", "s", "E", "n", "u", "m", "e", "r", "a", "b", "l", "e">>,
     <<"t", "o", "L", "o", "c", "a", "l", "e", "S", "t", "r", "i", "n", "g">>,
     <<"t", "o", "S", "t", "r", "i", "n", "g">>,
     <<"v", "a", "l", "u", "e", "O", "f">>,
     <<"_", "_", "p", "r", "o", "t", "o", "_", "_">>}

\* object[key] on an object made by {}: own properties, then inherited ones
GetProp(object, k) ==
    IF k \in DOMAIN object.members THEN object.members[k]
    ELSE IF k \in ObjectPrototypeNames THEN JSFunction
    ELSE JSUndefined

\* object[key] = value
SetProp(object, key, value) ==
    JSObject([k \in (DOMAIN object.members) \cup {key} |->
                 IF k = key THEN value ELSE object.members[k]])

typeOf(v) == IF v.type = "null" THEN "object" ELSE v.type

MapKeys == {<<"a">>, <<"b">>, <<"c">>}
MapValues ==
    {JSNumber(1), JSString(<<"1">>), JSBoolean(TRUE), JSString(StrTrue),
     JSString(<<"t", "o", "S", "t", "r", "i", "n", "g">>), JSString(<<"b", "a", "r">>),
     JSNull}
Entry(key, value) == [key |-> key, value |-> value]
\* the mappings of up to MaxEntries entries: no key twice
Mappings ==
    UNION {{m \in [1..n -> {Entry(k, v) : k \in MapKeys, v \in MapValues}] :
               \A p, q \in 1..n : p # q => m[p].key # m[q].key} :
           n \in 0..MaxEntries}

\* variant: the entry is copied instead of being reversed
mapEntry_notReversed(reversed, entry, showWarning) ==
    SetProp(reversed, entry.key, entry.value)

\* the callback of the forEach over Object.entries(jsonObject)
mapEntry(reversed, entry, showWarning) ==
    LET key == entry.key
        value == entry.value
        newKey == JSToString(value)
    IN  IF typeOf(value) \notin {"number", "boolean", "string"} /\ showWarning
        THEN reversed
        ELSE IF ~IsNullish(GetProp(reversed, newKey))
        THEN reversed
        ELSE SetProp(reversed, newKey, JSString(key))

RECURSIVE forEachEntry(_, _, _, _)
forEachEntry(reversed, entries, n, showWarning) ==
    IF n > Len(entries) THEN reversed
    ELSE forEachEntry(mapEntry(reversed, entries[n], showWarning), entries,
                      n + 1, showWarning)

reverseMapping(jsonObject, showWarning) ==
    forEachEntry(Blank, jsonObject, 1, showWarning)

\* reverse[lookupValue]: the property key is the string of the value
keyLookup(jsonMapping, lookupValue, showWarning) ==
    LET reverse == reverseMapping(jsonMapping, showWarning)
    IN  GetProp(reverse, JSToString(lookupValue))

MapIdle ==
    /\ rmOp = "none"
    /\ rmMapping = <<>>
    /\ rmWarn = TRUE
    /\ rmLookup = JSUndefined
    /\ rmResult = JSUndefined

\* the arguments of the call to come
MapInit ==
    /\ rmOp = "none"
    /\ rmMapping \in Mappings
    /\ rmWarn \in BOOLEAN
    /\ rmLookup \in MapValues
    /\ rmResult = JSUndefined

ReverseMapping ==
    /\ call = "reverseMapping"
    /\ rmOp = "none"
    /\ rmOp' = "reverseMapping"
    /\ rmLookup' = JSUndefined
    /\ rmResult' = reverseMapping(rmMapping, rmWarn)
    /\ UNCHANGED <<rmMapping, rmWarn>>
    /\ UNCHANGED call
    /\ UNCHANGED exceptMap

KeyLookup ==
    /\ call = "reverseMapping"
    /\ rmOp = "none"
    /\ rmOp' = "keyLookup"
    /\ rmResult' = keyLookup(rmMapping, rmLookup, rmWarn)
    /\ UNCHANGED <<rmMapping, rmWarn, rmLookup>>
    /\ UNCHANGED call
    /\ UNCHANGED exceptMap

\* ---- jsonGet ------------------------------------------------------------
KeyFoo == <<"f", "o", "o">>
KeyBar == <<"b", "a", "r">>
KeyTest == <<"t", "e", "s", "t">>
\* { foo: { bar: { test: 1 } } }
myObject == Obj1(KeyFoo, Obj1(KeyBar, Obj1(KeyTest, JSNumber(1))))
GetObjects == {myObject, Obj1(KeyFoo, JSNull), Blank, JSNull, JSUndefined}
GetKeys ==
    {KeyFoo, KeyBar,
     <<"f", "o", "o", ".", "b", "a", "r">>,
     <<"f", "o", "o", ".", "b", "a", "r", ".", "t", "e", "s", "t">>,
     <<"f", "o", "o", ".", "t", "e", "s", "t", ".", "b", "a", "r">>,
     <<"f", "o", "o", ".", "b", "a", "r", ".", "t", "e", "s", "t", ".", "b", "a", "r">>,
     <<"b", "a", "r", ".", "t", "e", "s", "t">>}

JgNone == [outcome |-> "none", value |-> JSUndefined]
JgReturned(v) == [outcome |-> "returned", value |-> v]

\* the forEach over the keys: from a null or undefined value on, nothing
\* is read
RECURSIVE navigate(_, _)
navigate(current, keys) ==
    IF keys = <<>> THEN current
    ELSE IF IsNullish(current) THEN navigate(current, Tail(keys))
    ELSE navigate(Get(current, keys[1]), Tail(keys))

jsonGet(object, key) ==
    IF IsNullish(object) THEN JSNull
    ELSE IF ~includesDot(key) THEN Get(object, key)
    ELSE navigate(object, Split(key, <<>>))

GetIdle ==
    /\ jgObject = JSUndefined
    /\ jgKey = KeyFoo
    /\ jgResult = JgNone

GetInit == GetIdle

JsonGet ==
    /\ call = "jsonGet"
    /\ \E object \in GetObjects, key \in GetKeys :
         /\ jgObject' = object
         /\ jgKey' = key
         /\ jgResult' = JgReturned(jsonGet(object, key))
    /\ UNCHANGED call
    /\ UNCHANGED exceptGet

\* ---- mapListToKeyObject -------------------------------------------------
MaxItems == 3

JSArray(items) == [type |-> "array", items |-> items]

KeyId == <<"_", "i", "d">>
KeyOrder == <<"o", "r", "d", "e", "r">>
DbItem(id, name, level, order) ==
    JSObject([k \in {KeyId, KeyName, KeyLevel, KeyOrder} |->
                 IF k = KeyId THEN JSString(id)
                 ELSE IF k = KeyName THEN JSString(name)
                 ELSE IF k = KeyLevel THEN JSNumber(level)
                 ELSE JSNumber(order)])
ItemA == DbItem(<<"a">>, <<"f", "o", "o">>, 1, 1)
ItemB == DbItem(<<"b">>, <<"b", "a", "r">>, 2, 2)
ItemC == DbItem(<<"c">>, <<"t", "e", "s", "t">>, 1, 3)
\* an item whose name is the name of an inherited property
ItemD == DbItem(<<"d">>, <<"c", "o", "n", "s", "t", "r", "u", "c", "t", "o", "r">>, 2, 1)
ItemPool == {ItemA, ItemB, ItemC, ItemD}

\* the arrays of up to MaxItems items, and no list at all
ListArgs ==
    {JSArray(l) : l \in UNION {[1..n -> ItemPool] : n \in 0..MaxItems}}
        \cup {JSNull, JSUndefined}
\* a key, the function item => item.level + item.order, or nothing
KeyOrFunctionArgs ==
    {JSString(KeyId), JSString(KeyLevel), JSString(KeyName), JSFunction, JSNull}

\* the key of an item: obj => obj[keyOrFunction], or the function given
lambda(keyOrFunction, item) ==
    IF typeOf(keyOrFunction) \in {"number", "string"}
    THEN GetProp(item, JSToString(keyOrFunction))
    ELSE JSNumber(Get(item, KeyLevel).num + Get(item, KeyOrder).num)

\* the callback of list.forEach
mapItem(mapped, item, keyOrFunction) ==
    LET key == JSToString(lambda(keyOrFunction, item))
        existing == GetProp(mapped, key)
    IN  IF IsNullish(existing)
        THEN SetProp(mapped, key, item)
        ELSE IF existing.type # "array"
        THEN SetProp(mapped, key, JSArray(<<existing, item>>))
        ELSE SetProp(mapped, key, JSArray(Append(existing.items, item)))

RECURSIVE forEachItem(_, _, _, _)
forEachItem(mapped, items, n, keyOrFunction) ==
    IF n > Len(items) THEN mapped
    ELSE forEachItem(mapItem(mapped, items[n], keyOrFunction), items, n + 1,
                     keyOrFunction)

mapListToKeyObject(list, keyOrFunction) ==
    IF IsNullish(list) \/ IsNullish(keyOrFunction) \/ list.type # "array"
    THEN Blank
    ELSE forEachItem(Blank, list.items, 1, keyOrFunction)

MlNone == [outcome |-> "none", value |-> JSUndefined]
MlReturned(v) == [outcome |-> "returned", value |-> v]

MapListIdle ==
    /\ mlList = JSNull
    /\ mlKey = JSNull
    /\ mlResult = MlNone

\* the arguments of the call to come
MapListInit ==
    /\ mlList \in ListArgs
    /\ mlKey \in KeyOrFunctionArgs
    /\ mlResult = MlNone

MapListToKeyObject ==
    /\ call = "mapListToKeyObject"
    /\ mlResult = MlNone
    /\ mlResult' = MlReturned(mapListToKeyObject(mlList, mlKey))
    /\ UNCHANGED <<mlList, mlKey>>
    /\ UNCHANGED call
    /\ UNCHANGED exceptMapList

\* ---- toggleItem / integrateDbItem / removeDbItem ------------------------
MaxListLen == 3

\* list.indexOf(item): the first position holding the item, 0 for -1
indexOf(list, item) ==
    IF \E n \in 1..Len(list) : list[n] = item
    THEN CHOOSE n \in 1..Len(list) :
             list[n] = item /\ \A m \in 1..(n - 1) : list[m] # item
    ELSE 0

\* list.splice(index, 1)
splice(list, index) ==
    SubSeq(list, 1, index - 1) \o SubSeq(list, index + 1, Len(list))

\* what a call leaves: the contents of the array it was given, the contents
\* of the array it returns, and whether the two are the same array
InPlace(list) == [list |-> list, returned |-> list, same |-> TRUE]
NewArray(list, returned) == [list |-> list, returned |-> returned, same |-> FALSE]

\* variant: the item is appended whether or not the list holds it
toggleItem_appendOnly(list, item) == InPlace(Append(list, item))

toggleItem(list, item) ==
    LET index == indexOf(list, item)
    IN  IF index = 0 THEN InPlace(Append(list, item))
        ELSE InPlace(splice(list, index))

\* the default of the idKey parameter
idKeyOrDefault(idKey) == IF idKey = JSUndefined THEN KeyId ELSE idKey.str

\* list.map(i => i[idKey])
mapIds(list, idKey) == [n \in 1..Len(list) |-> GetProp(list[n], idKey)]

\* variant: the list is copied before it is changed
integrateDbItem_copy(list, item, idKeyArg) ==
    LET idKey == idKeyOrDefault(idKeyArg)
        index == indexOf(mapIds(list, idKey), GetProp(item, idKey))
    IN  IF index = 0 THEN NewArray(list, Append(list, item))
        ELSE NewArray(list, [list EXCEPT ![index] = item])

\* variant: the item is pushed whether or not its id is in the list
integrateDbItem_push(list, item, idKeyArg) == InPlace(Append(list, item))

integrateDbItem(list, item, idKeyArg) ==
    LET idKey == idKeyOrDefault(idKeyArg)
        index == indexOf(mapIds(list, idKey), GetProp(item, idKey))
    IN  IF index = 0 THEN InPlace(Append(list, item))
        ELSE InPlace([list EXCEPT ![index] = item])

\* list.filter(...) makes a new array
removeDbItem(list, itemId, idKeyArg) ==
    LET idKey == idKeyOrDefault(idKeyArg)
    IN  NewArray(list,
            SelectSeq(list, LAMBDA item : GetProp(item, idKey) # itemId))

Primitives == {JSNumber(1), JSNumber(2), JSString(<<"1">>)}
\* same _id as ItemA, same name as ItemB
ItemA2 == DbItem(<<"a">>, <<"b", "a", "r">>, 5, 5)
DbItems == {ItemA, ItemA2, ItemB, ItemC}
IdKeyArgs == {JSUndefined, JSString(KeyId), JSString(KeyName)}
ItemIds ==
    {GetProp(item, k) : item \in DbItems, k \in {KeyId, KeyName}}
        \cup {JSString(<<"z">>)}
SeqsUpTo(S, n) == UNION {[1..m -> S] : m \in 0..n}
PairwiseDistinct(ids) ==
    \A p, q \in 1..Len(ids) : p # q => ids[p] # ids[q]

ListIdle ==
    /\ lsOp = "none"
    /\ lsArg = JSUndefined
    /\ lsIdKey = JSUndefined
    /\ lsBefore = <<>>
    /\ lsList = <<>>
    /\ lsReturned = <<>>
    /\ lsSame = TRUE

\* any list of primitive entries
ToggleInit ==
    /\ lsOp = "none"
    /\ lsArg = JSUndefined
    /\ lsIdKey = JSUndefined
    /\ lsReturned \in SeqsUpTo(Primitives, MaxListLen - 1)
    /\ lsBefore = lsReturned
    /\ lsList = lsReturned
    /\ lsSame = TRUE

\* a list of items whose ids are pairwise distinct, and the idKey of the
\* calls to come
DbInit ==
    /\ lsOp = "none"
    /\ lsArg = JSUndefined
    /\ lsIdKey \in IdKeyArgs
    /\ lsReturned \in SeqsUpTo(DbItems, MaxListLen - 1)
    /\ PairwiseDistinct(mapIds(lsReturned, idKeyOrDefault(lsIdKey)))
    /\ lsBefore = lsReturned
    /\ lsList = lsReturned
    /\ lsSame = TRUE

\* the call is made on the list the call before returned
ListCall(op, arg, r) ==
    /\ lsOp' = op
    /\ lsArg' = arg
    /\ lsBefore' = lsReturned
    /\ lsList' = r.list
    /\ lsReturned' = r.returned
    /\ lsSame' = r.same
    /\ UNCHANGED lsIdKey
    /\ UNCHANGED call
    /\ UNCHANGED exceptList

ToggleItem ==
    /\ call = "toggleItem"
    /\ \E item \in Primitives :
         /\ Len(lsReturned) < MaxListLen \/ indexOf(lsReturned, item) # 0
         /\ ListCall("toggleItem", item, toggleItem(lsReturned, item))

IntegrateDbItem ==
    /\ call = "dbItems"
    /\ \E item \in DbItems :
         /\ \/ Len(lsReturned) < MaxListLen
            \/ integrateDbItem(lsReturned, item, lsIdKey).returned
                 # Append(lsReturned, item)
         /\ ListCall("integrateDbItem", item,
                     integrateDbItem(lsReturned, item, lsIdKey))

RemoveDbItem ==
    /\ call = "dbItems"
    /\ \E itemId \in ItemIds :
         ListCall("removeDbItem", itemId,
                  removeDbItem(lsReturned, itemId, lsIdKey))

\* ---- getQueryStringParams ----------------------------------------------
MaxParams == 2

\* text.split(separator)
RECURSIVE splitOn(_, _, _)
splitOn(text, separator, acc) ==
    IF text = <<>> THEN <<acc>>
    ELSE IF text[1] = separator
    THEN <<acc>> \o splitOn(Tail(text), separator, <<>>)
    ELSE splitOn(Tail(text), separator, Append(acc, text[1]))

\* value.replace(/\+/g, " ")
replacePlus(value) ==
    [n \in 1..Len(value) |-> IF value[n] = "+" THEN " " ELSE value[n]]

HexDigits == <<"0", "1", "2", "3", "4", "5", "6", "7", "8", "9", "A", "B", "C", "D", "E", "F">>
LowerHexDigits == <<"0", "1", "2", "3", "4", "5", "6", "7", "8", "9", "a", "b", "c", "d", "e", "f">>
IsHex(c) == \E n \in 1..16 : HexDigits[n] = c \/ LowerHexDigits[n] = c
HexValue(c) ==
    (CHOOSE n \in 1..16 : HexDigits[n] = c \/ LowerHexDigits[n] = c) - 1
\* stands for the character of code 96
Backtick == "<backtick>"
\* the printable characters, codes 32 to 126
Ascii ==
    <<
      " ", "!", "\"", "#", "$", "%", "&", "'", "(", ")", "*", "+",
      ",", "-", ".", "/", "0", "1", "2", "3", "4", "5", "6", "7",
      "8", "9", ":", ";", "<", "=", ">", "?", "@", "A", "B", "C",
      "D", "E", "F", "G", "H", "I", "J", "K", "L", "M", "N", "O",
      "P", "Q", "R", "S", "T", "U", "V", "W", "X", "Y", "Z", "[",
      "\\", "]", "^", "_", Backtick, "a", "b", "c", "d", "e", "f", "g",
      "h", "i", "j", "k", "l", "m", "n", "o", "p", "q", "r", "s",
      "t", "u", "v", "w", "x", "y", "z", "{", "|", "}", "~" >>
\* stands for a character below code 32, or code 127
ControlChar == "<control>"

DecodeOk(str) == [ok |-> TRUE, str |-> str]
\* URIError: URI malformed
DecodeFail == [ok |-> FALSE, str |-> <<>>]

\* decodeURIComponent: %XX gives the character of code XX; a % without two
\* hex digits, or a byte from 128 on that starts no sequence, is malformed
RECURSIVE decodeURIComponent(_)
decodeURIComponent(text) ==
    IF text = <<>> THEN DecodeOk(<<>>)
    ELSE IF text[1] # "%"
    THEN LET rest == decodeURIComponent(Tail(text))
         IN  IF rest.ok THEN DecodeOk(<<text[1]>> \o rest.str) ELSE DecodeFail
    ELSE IF Len(text) < 3 \/ ~IsHex(text[2]) \/ ~IsHex(text[3])
    THEN DecodeFail
    ELSE LET code == 16 * HexValue(text[2]) + HexValue(text[3])
             rest == decodeURIComponent(SubSeq(text, 4, Len(text)))
             char == IF code >= 32 /\ code <= 126
                     THEN Ascii[code - 31] ELSE ControlChar
         IN  IF code >= 128 \/ ~rest.ok THEN DecodeFail
             ELSE DecodeOk(<<char>> \o rest.str)

QsNone == [outcome |-> "none", value |-> JSUndefined]
QsReturned(v) == [outcome |-> "returned", value |-> v]
QsThrew == [outcome |-> "threw", value |-> JSError("URIError")]

\* params[key] = value: assigning a string to __proto__ changes nothing
assign(params, key, value) ==
    IF key = <<"_", "_", "p", "r", "o", "t", "o", "_", "_">> THEN params
    ELSE SetProp(params, key, value)

\* variant: the first occurrence of a name is kept
reduceParam_firstWins(acc, param) ==
    LET parts == splitOn(param, "=", <<>>)
        key == parts[1]
        value == IF Len(parts) > 1 THEN parts[2] ELSE <<>>
        decoded == decodeURIComponent(replacePlus(value))
    IN  IF acc.outcome = "threw" THEN acc
        ELSE IF value # <<>> /\ ~decoded.ok THEN QsThrew
        ELSE IF key \in DOMAIN acc.value.members THEN acc
        ELSE QsReturned(assign(acc.value, key,
                 JSString(IF value # <<>> THEN decoded.str ELSE <<>>)))

\* the callback of reduce: const [key, value] = param.split("=")
reduceParam(acc, param) ==
    LET parts == splitOn(param, "=", <<>>)
        key == parts[1]
        value == IF Len(parts) > 1 THEN parts[2] ELSE <<>>
        decoded == decodeURIComponent(replacePlus(value))
    IN  IF acc.outcome = "threw" THEN acc
        ELSE IF value # <<>> /\ ~decoded.ok THEN QsThrew
        ELSE QsReturned(assign(acc.value, key,
                 JSString(IF value # <<>> THEN decoded.str ELSE <<>>)))

RECURSIVE reduce(_, _, _)
reduce(acc, params, n) ==
    IF n > Len(params) THEN acc
    ELSE reduce(reduceParam(acc, params[n]), params, n + 1)

\* a query is null or a string
getQueryStringParams(query) ==
    IF IsNullish(query) \/ query.str = <<>> THEN QsReturned(Blank)
    ELSE LET text == IF query.str[1] \in {"?", "#"} THEN Tail(query.str)
                     ELSE query.str
         IN  reduce(QsReturned(Blank), splitOn(text, "&", <<>>), 1)

\* the pieces queries are made of: the text of a parameter, with the name
\* and the value it stands for
Piece(text, name, value, malformed) ==
    [text |-> text, name |-> name, value |-> value, malformed |-> malformed]
Pieces ==
    {Piece(<<"i", "d", "=", "a", "b", "c">>, <<"i", "d">>, <<"a", "b", "c">>, FALSE),
     Piece(<<"i", "d", "=", "5">>, <<"i", "d">>, <<"5">>, FALSE),
     Piece(<<"p", "a", "g", "e", "=", "5">>, <<"p", "a", "g", "e">>, <<"5">>, FALSE),
     Piece(<<"p", "a", "g", "e">>, <<"p", "a", "g", "e">>, <<>>, FALSE),
     Piece(<<"p", "a", "g", "e", "=">>, <<"p", "a", "g", "e">>, <<>>, FALSE),
     Piece(<<"q", "=", "a", "+", "b">>, <<"q">>, <<"a", " ", "b">>, FALSE),
     Piece(<<"q", "=", "%", "4", "1", "%", "3", "d">>, <<"q">>, <<"A", "=">>, FALSE),
     Piece(<<"q", "=", "1", "=", "2">>, <<"q">>, <<"1">>, FALSE),
     Piece(<<"q", "=", "1", "0", "0", "%">>, <<"q">>, <<>>, TRUE),
     Piece(<<"_", "_", "p", "r", "o", "t", "o", "_", "_", "=", "x">>, <<"_", "_", "p", "r", "o", "t", "o", "_", "_">>, <<"x">>, FALSE),
     Piece(<<>>, <<>>, <<>>, FALSE)}
Prefixes == {<<>>, <<"?">>, <<"#">>, <<"?", "?">>}

RECURSIVE join(_, _)
join(pieces, n) ==
    IF n > Len(pieces) THEN <<>>
    ELSE (IF n > 1 THEN <<"&">> ELSE <<>>) \o pieces[n].text \o join(pieces, n + 1)

QueryIdle ==
    /\ qsPrefix = <<>>
    /\ qsPieces = <<>>
    /\ qsQuery = JSNull
    /\ qsResult = QsNone

\* the query of the call to come: null, or a prefix and parameters joined
\* by "&"
QueryInit ==
    /\ qsPrefix \in Prefixes
    /\ qsPieces \in UNION {[1..n -> Pieces] : n \in 0..MaxParams}
    /\ qsQuery \in {JSNull, JSString(qsPrefix \o join(qsPieces, 1))}
    /\ qsResult = QsNone

GetQueryStringParams ==
    /\ call = "getQueryStringParams"
    /\ qsResult = QsNone
    /\ qsResult' = getQueryStringParams(qsQuery)
    /\ UNCHANGED <<qsPrefix, qsPieces, qsQuery>>
    /\ UNCHANGED call
    /\ UNCHANGED exceptQuery

\* ---- the system ---------------------------------------------------------
Init ==
    /\ call \in {"normalise", "range", "restHandler", "auth",
                 "updateSorting", "sort", "formatDate",
                 "reverseMapping", "jsonGet",
                 "mapListToKeyObject",
                 "toggleItem", "dbItems",
                 "getQueryStringParams"}
    /\ IF call = "normalise" THEN NormaliseInit ELSE NormaliseIdle
    /\ IF call = "range" THEN RangeInit ELSE RangeIdle
    /\ IF call = "restHandler" THEN RestInit ELSE RestIdle
    /\ IF call = "auth" THEN AuthInit ELSE AuthIdle
    /\ IF call = "updateSorting" THEN SortingInit ELSE SortingIdle
    /\ IF call = "sort" THEN CmpInit ELSE CmpIdle
    /\ IF call = "formatDate" THEN DateInit ELSE DateIdle
    /\ IF call = "reverseMapping" THEN MapInit ELSE MapIdle
    /\ IF call = "jsonGet" THEN GetInit ELSE GetIdle
    /\ IF call = "mapListToKeyObject" THEN MapListInit ELSE MapListIdle
    /\ IF call = "toggleItem" THEN ToggleInit
       ELSE IF call = "dbItems" THEN DbInit ELSE ListIdle
    /\ IF call = "getQueryStringParams" THEN QueryInit ELSE QueryIdle

Next ==
    \/ Normalise
    \/ RangeEnter
    \/ RangeIterate
    \/ RangeReturn
    \/ RangeRunaway
    \/ RestHandler
    \/ BodyReadEnds
    \/ TextCallback
    \/ JsonSettles
    \/ SetAuthToken
    \/ Logout
    \/ GetAuthHeader
    \/ UpdateSorting
    \/ Compare
    \/ FormatDate
    \/ FormatDateTime
    \/ ReverseMapping
    \/ KeyLookup
    \/ JsonGet
    \/ MapListToKeyObject
    \/ ToggleItem
    \/ IntegrateDbItem
    \/ RemoveDbItem
    \/ GetQueryStringParams

Spec == Init /\ [][Next]_vars

\* ==== properties ==========================================================

NormaliseDone == call = "normalise" /\ npc = "done"
RangeDone == call = "range" /\ rpc = "done"

\* C1: for min < max and min <= val <= max, normalise(val, min, max) is the
\* quotient (val - min) / (max - min).
C1_NormaliseInterpolates ==
    (NormaliseDone /\ nmin < nmax /\ nmin <= nval /\ nval <= nmax)
        => /\ nres[2] > 0
           /\ nres[1] * (nmax - nmin) = nres[2] * (nval - nmin)

C1_Witness ==
    NormaliseDone /\ nmin < nval /\ nval < nmax /\ nres = <<1, 2>>

C3_DegenerateAlwaysOne ==
    (NormaliseDone /\ nmin = nmax) => nres = One

\* C3 amended: normalise returns 1.0 whenever min == max and val >= min;
\* a val below min is clamped to 0.0 first.
C3_DegenerateOneFromMin ==
    (NormaliseDone /\ nmin = nmax)
        => nres = (IF nval >= nmin THEN One ELSE Zero)

C3_Witness ==
    NormaliseDone /\ nmin = nmax /\ nval = nmin /\ nres = One

\* C4: for min > max the bounds are exchanged: normalise(val, min, max)
\* equals normalise(val, max, min).
C4_SwapsBounds ==
    (NormaliseDone /\ nmin > nmax) => nres = normalise(nval, nmax, nmin)

\* the k-th term (k = 1, 2, ...) of the arithmetic sequence, and the number
\* of its terms between a and b inclusive
Term(a, s, k) == a + (k - 1) * s
TermCount(a, b, s) == (Abs(b - a) \div Abs(s)) + 1
ArithmeticSeq(a, b, s) == [k \in 1..TermCount(a, b, s) |-> Term(a, s, k)]

\* C5: for step > 0 and start <= stop (resp. step < 0 and start >= stop)
\* range returns exactly start, start + step, start + 2*step, ... up to and
\* including the last term that does not pass stop; an omitted step is 1.
C5_RangeInclusiveSequence ==
    RangeDone
        => /\ (step > 0 /\ start <= stop
                  => result = ArithmeticSeq(start, stop, step))
           /\ (step < 0 /\ start >= stop
                  => result = ArithmeticSeq(start, stop, step))
           /\ (~stepGiven /\ start <= stop
                  => result = ArithmeticSeq(start, stop, Scale))

C5_Witness ==
    /\ RangeDone /\ stepGiven /\ step < 0 /\ start > stop
    /\ Len(result) >= 3
    /\ result[Len(result)] = stop

\* C6: whenever (start > stop and step > 0) or (start < stop and step < 0)
\* range returns the empty array.
C6_RangeMismatchEmpty ==
    (RangeDone /\ ((start > stop /\ step > 0) \/ (start < stop /\ step < 0)))
        => result = <<>>

C6_Witness ==
    RangeDone /\ start < stop /\ step < 0 /\ result = <<>>

\* C7: range returns for every start, stop and step, step = 0 included: the
\* loop never runs away, and a call with step = 0 returns the empty array.
C7_RangeTerminates ==
    /\ rpc # "runaway"
    /\ (RangeDone /\ step = 0 => result = <<>>)

RestQuiet == call = "restHandler" /\ hpc = "done"
KeyError == <<"e", "r", "r", "o", "r">>
StrNotFound == <<"n", "o", "t", " ", "f", "o", "u", "n", "d">>

\* C8: for a response whose body is valid JSON, the promise resolves with
\* the parsed body if and only if status < 400 and rejects if and only if
\* status >= 400.
C8_BinaryOutcomeAt400 ==
    (call = "restHandler" /\ JSONParse(bodyText).ok /\ bodyRead = "complete")
        => /\ (promise.state = "fulfilled"
                 => status < 400 /\ promise.value = JSONParse(bodyText).value)
           /\ (promise.state = "rejected" => status >= 400)
           /\ (hpc = "done" /\ status < 400 => promise.state = "fulfilled")
           /\ (hpc = "done" /\ status >= 400 => promise.state = "rejected")

C8_Witness ==
    /\ RestQuiet /\ status = 399 /\ bodyText = BodyNotFound
    /\ promise.state = "fulfilled"
    /\ promise.value.type = "object"
    /\ promise.value.members[KeyError] = JSString(StrNotFound)

EffectiveKey(k) == IF k = Omitted THEN "auth_token" ELSE k
CallsFor(k) == SelectSeq(opLog, LAMBDA c : EffectiveKey(c.key) = EffectiveKey(k))
ExpectedToken(k) ==
    LET calls == CallsFor(k) IN
    IF calls = <<>> THEN NoItem
    ELSE IF calls[Len(calls)].op = "setAuthToken" THEN calls[Len(calls)].token
    ELSE NoItem

\* C11: after any sequence of setAuthToken and logout calls, with the key
\* defaulting to "auth_token", getAuthHeader(key).Authorization is the token
\* of the most recent setAuthToken for that key when no logout for the key
\* followed it, and null otherwise.
C11_TokenStorageProtocol ==
    (call = "auth" /\ authFresh)
        => authHeader.Authorization = ExpectedToken(authArg)

C11_Witness ==
    /\ call = "auth" /\ Len(opLog) = 3
    /\ opLog[1].op = "setAuthToken" /\ opLog[1].key = Omitted
    /\ opLog[2].op = "logout" /\ opLog[2].key = "auth_token"
    /\ opLog[3].op = "setAuthToken" /\ opLog[3].key = "my_token"
    /\ authFresh /\ authArg = Omitted /\ authHeader.Authorization = NoItem

\* the state key the last updateSorting call worked on, the definition it
\* found there and the definition the returned state holds there
UsStateKey == IF usArgs.stateKey = Null THEN "sorting" ELSE usArgs.stateKey
UsCalled == call = "updateSorting" /\ usOutcome # "none"
UsHadSorting == usBefore.state[UsStateKey] # 0
UsOldSorting == usBefore.heap[usBefore.state[UsStateKey]]
UsNewSorting == heap[compState[UsStateKey]]
UsReselected == UsHadSorting /\ UsOldSorting.key = usArgs.sortKey

\* C12: when the selected key is selected again the returned definition has
\* the same key and the opposite direction, so two reselections in a row
\* restore the direction.
C12_ReselectFlipsDirection ==
    /\ []((UsCalled /\ UsReselected) =>
            /\ usOutcome = "returned"
            /\ compState[UsStateKey] # 0
            /\ UsNewSorting.key = usArgs.sortKey
            /\ (UsOldSorting.direction = "asc"
                  => UsNewSorting.direction = "desc")
            /\ (UsOldSorting.direction = "desc"
                  => UsNewSorting.direction = "asc"))
    /\ [][(/\ UsCalled /\ UsReselected
           /\ usArgs'.sortKey = usArgs.sortKey
           /\ (UsStateKey)' = UsStateKey
           /\ usBefore' = [state |-> compState, heap |-> heap])
          => (UsNewSorting)'.direction = UsOldSorting.direction]_vars

C12_Witness ==
    /\ UsCalled /\ UsReselected /\ usArgs.stateKey = "tableSort"
    /\ UsOldSorting = [key |-> "name", direction |-> "desc"]
    /\ UsNewSorting = [key |-> "name", direction |-> "asc"]

\* C13: selecting a key other than the selected one sets the definition to
\* {key: sortKey, direction: defaultDirection}, with "asc" for a missing
\* defaultDirection and "sorting" for a missing stateKey, whatever the
\* previous direction was.
C13_NewKeyTakesDefaultDirection ==
    (UsCalled /\ UsHadSorting /\ UsOldSorting.key # usArgs.sortKey)
        => /\ usOutcome = "returned"
           /\ compState[UsStateKey] # 0
           /\ UsNewSorting =
                [key |-> usArgs.sortKey,
                 direction |-> IF usArgs.defaultDirection = Null THEN "asc"
                               ELSE usArgs.defaultDirection]

C13_Witness ==
    /\ UsCalled /\ UsHadSorting
    /\ usArgs = [sortKey |-> "date", stateKey |-> Null,
                 defaultDirection |-> Null]
    /\ UsOldSorting = [key |-> "name", direction |-> "desc"]
    /\ UsNewSorting = [key |-> "date", direction |-> "asc"]
    /\ compState["sorting"] # 0

\* C14: when oldState holds no sort definition under stateKey, updateSorting
\* does not raise and the returned state maps stateKey to
\* initSorting(sortKey, defaultDirection).
C14_InitialisesMissingSorting ==
    (UsCalled /\ ~UsHadSorting)
        => /\ usOutcome = "returned"
           /\ compState[UsStateKey] # 0
           /\ UsNewSorting = initSorting(usArgs.sortKey, usArgs.defaultDirection)

\* the values the last comparator call compared, and the same call made
\* with the other direction
CmpCalled == call = "sort" /\ cmpResult.outcome # "none"
CmpAVal == Descend(cmpA, Split(sorting.key, <<>>))
CmpBVal == Descend(cmpB, Split(sorting.key, <<>>))
OtherDirection == IF sorting.direction = "asc" THEN "desc" ELSE "asc"
CmpMirror == sort([key |-> sorting.key, direction |-> OtherDirection], cmpA, cmpB)
Sign(n) == IF n < 0 THEN -1 ELSE IF n > 0 THEN 1 ELSE 0
OppositeSign(r, q) ==
    /\ r.outcome = "returned" /\ q.outcome = "returned"
    /\ r.nan = q.nan
    /\ Sign(r.num) = -Sign(q.num)
\* s is before t in the dictionary: the first letter that differs is
\* smaller in s, or s is a proper prefix of t
LexBefore(s, t) ==
    \E n \in 1..(Len(s) + 1) :
        /\ n <= Len(t)
        /\ \A j \in 1..(n - 1) : LetterRank(s[j]) = LetterRank(t[j])
        /\ \/ n = Len(s) + 1
           \/ LetterRank(s[n]) < LetterRank(t[n])
BothHave(type) == CmpAVal.type = type /\ CmpBVal.type = type

\* C15: for every pair of records and every kind of key the descending
\* comparator has the opposite sign of the ascending one, and for a key in
\* stringKeys the ascending comparator orders the records by the dictionary
\* order of their values.
C15_DirectionInverts ==
    CmpCalled =>
        /\ OppositeSign(cmpResult, CmpMirror)
        /\ (sorting.key \in stringKeys /\ sorting.direction = "asc")
             => /\ cmpResult.outcome = "returned"
                /\ LexBefore(JSToString(CmpAVal), JSToString(CmpBVal))
                     => cmpResult.num < 0
                /\ LexBefore(JSToString(CmpBVal), JSToString(CmpAVal))
                     => cmpResult.num > 0

\* C16: for a key in booleanKeys and direction "asc" the comparator is
\* negative when a's value is true and b's is false, and positive when a's
\* value is false and b's is true.
C16_TrueSortsFirst ==
    (CmpCalled /\ sorting.key \in booleanKeys /\ sorting.direction = "asc"
       /\ BothHave("boolean"))
        => /\ cmpResult.outcome = "returned" /\ ~cmpResult.nan
           /\ (CmpAVal.bool /\ ~CmpBVal.bool) => cmpResult.num < 0
           /\ (~CmpAVal.bool /\ CmpBVal.bool) => cmpResult.num > 0

C16_Witness ==
    /\ CmpCalled /\ sorting = [key |-> KeyIsAdmin, direction |-> "asc"]
    /\ cmpA = Janine /\ cmpB = Peter
    /\ cmpResult.outcome = "returned" /\ cmpResult.num > 0

\* C17: the comparator does not raise when a record lacks the key or an
\* intermediate property of a dotted key, whatever the kind of the key.
C17_MissingKeysTolerated ==
    CmpCalled => cmpResult.outcome = "returned"

FdCalled == call = "formatDate" /\ fdResult.outcome # "none"
FdUnparseableString == fdDate.kind = "string" /\ fdDate.accepts = {}
FdInvalidInput ==
    \/ fdDate.kind \in {"null", "undefined"}
    \/ fdDate.kind \in {"Date", "moment", "DateTime"} /\ ~fdDate.valid

\* C18: formatDate and formatDateTime raise only for a string that none of
\* the ISO, SQL and RFC2822 parsers accept; null, undefined, an invalid Date
\* and an invalid date-library instance give null without raising.
C18_RaisesOnlyForUnparseableString ==
    FdCalled =>
        /\ fdResult.outcome = "threw" => FdUnparseableString
        /\ FdInvalidInput => (fdResult.outcome = "returned" /\ fdResult.isNull)

KlCalled == call = "reverseMapping" /\ rmOp = "keyLookup"
IsPrimitive(v) == v.type \in {"number", "boolean", "string"}
MapEntries == 1..Len(rmMapping)
DistinctPrimitives ==
    /\ \A p \in MapEntries : IsPrimitive(rmMapping[p].value)
    /\ \A p, q \in MapEntries :
         p # q => rmMapping[p].value # rmMapping[q].value
DistinctAsStrings ==
    /\ \A p \in MapEntries : IsPrimitive(rmMapping[p].value)
    /\ \A p, q \in MapEntries :
         p # q => JSToString(rmMapping[p].value) # JSToString(rmMapping[q].value)
    /\ \A p \in MapEntries :
         JSToString(rmMapping[p].value) \notin ObjectPrototypeNames
LookupGivesKey ==
    \A p \in MapEntries :
        rmLookup = rmMapping[p].value => rmResult = JSString(rmMapping[p].key)

JgCalled == call = "jsonGet" /\ jgResult.outcome = "returned"
\* the path of keys exists in the value, level by level
RECURSIVE PathExists(_, _)
PathExists(v, path) ==
    IF path = <<>> THEN TRUE
    ELSE /\ v.type = "object"
         /\ path[1] \in DOMAIN v.members
         /\ PathExists(v.members[path[1]], Tail(path))
RECURSIVE PathValue(_, _)
PathValue(v, path) ==
    IF path = <<>> THEN v ELSE PathValue(v.members[path[1]], Tail(path))

\* C20: jsonGet returns null when the (possibly dotted) key does not exist
\* in the object, also when an intermediate level is not set, and the
\* resolved value otherwise.
C20_NullForMissingKey ==
    JgCalled =>
        IF PathExists(jgObject, Split(jgKey, <<>>))
        THEN jgResult.value = PathValue(jgObject, Split(jgKey, <<>>))
        ELSE jgResult.value = JSNull

MlCalled == call = "mapListToKeyObject" /\ mlResult.outcome = "returned"
MlNoInput == IsNullish(mlList) \/ IsNullish(mlKey)
\* the key derived for an item, as a property name
DerivedKey(item) == JSToString(lambda(mlKey, item))
DerivedKeys == {DerivedKey(mlList.items[n]) : n \in 1..Len(mlList.items)}
ItemsFor(k) == SelectSeq(mlList.items, LAMBDA item : DerivedKey(item) = k)
MlGrouped ==
    /\ DOMAIN mlResult.value.members = DerivedKeys
    /\ \A k \in DerivedKeys :
         mlResult.value.members[k] =
             IF Len(ItemsFor(k)) = 1 THEN ItemsFor(k)[1]
             ELSE JSArray(ItemsFor(k))

\* C21: for every derived key the result holds the item itself when one
\* item maps to the key and the list of the items mapping to it, in list
\* order, when two or more do; there are no other keys, and the result is
\* empty when list or keyOrFunction is null.
C21_GroupsItemsByKey ==
    MlCalled => IF MlNoInput THEN mlResult.value = Blank ELSE MlGrouped

TgCalled == call = "toggleItem" /\ lsOp = "toggleItem"
Contains(list, item) == \E n \in 1..Len(list) : list[n] = item
Count(list, item) == Cardinality({n \in 1..Len(list) : list[n] = item})
FirstOf(list, item) ==
    CHOOSE n \in 1..Len(list) :
        list[n] = item /\ \A m \in 1..(n - 1) : list[m] # item
WithoutAt(list, n) ==
    [m \in 1..(Len(list) - 1) |-> IF m < n THEN list[m] ELSE list[m + 1]]

\* C22: toggleItem returns the list with the item appended if the list did
\* not hold it before the call, and with the item no longer contained in
\* the list if it did.
C22_ToggleAddsOrRemoves ==
    TgCalled =>
        /\ ~Contains(lsBefore, lsArg) => lsReturned = Append(lsBefore, lsArg)
        /\ Contains(lsBefore, lsArg) => ~Contains(lsReturned, lsArg)

\* C22, amended: the item is appended if the list did not hold it; else
\* its first occurrence is removed, so that a list that held the item once
\* no longer contains it.
C22_ToggleRemovesFirstOccurrence ==
    TgCalled =>
        /\ ~Contains(lsBefore, lsArg) => lsReturned = Append(lsBefore, lsArg)
        /\ Contains(lsBefore, lsArg) =>
             /\ lsReturned = WithoutAt(lsBefore, FirstOf(lsBefore, lsArg))
             /\ Count(lsBefore, lsArg) = 1 => ~Contains(lsReturned, lsArg)

C22_Witness ==
    /\ TgCalled /\ lsArg = JSNumber(1)
    /\ lsBefore = <<JSNumber(2), JSNumber(1), JSString(<<"1">>)>>
    /\ lsReturned = <<JSNumber(2), JSString(<<"1">>)>>

LsCalled == call \in {"toggleItem", "dbItems"} /\ lsOp # "none"

\* C23: toggleItem, integrateDbItem and removeDbItem change the list they
\* are given in place: after each call that list holds the updated contents
\* and is the list that is returned.
C23_AllMutateInPlace ==
    LsCalled => (lsSame /\ lsList = lsReturned)

\* C23, amended: toggleItem and integrateDbItem change the list they are
\* given and return it; removeDbItem returns a new list and leaves the list
\* it is given as it was.
C23_RemoveReturnsNewList ==
    LsCalled =>
        /\ lsOp \in {"toggleItem", "integrateDbItem"}
             => (lsSame /\ lsList = lsReturned)
        /\ lsOp = "removeDbItem" => (~lsSame /\ lsList = lsBefore)

C23_Witness ==
    /\ LsCalled /\ lsOp = "removeDbItem" /\ lsArg = JSString(<<"a">>)
    /\ lsBefore = <<ItemA, ItemB>>
    /\ lsList = <<ItemA, ItemB>>
    /\ lsReturned = <<ItemB>>
    /\ ~lsSame

DbCalled == call = "dbItems" /\ lsOp # "none"
IdOf(item) ==
    item.members[IF lsIdKey = JSUndefined THEN <<"_", "i", "d">> ELSE lsIdKey.str]
DistinctIds(list) ==
    \A p, q \in 1..Len(list) : p # q => IdOf(list[p]) # IdOf(list[q])
PositionsOf(list, id) == {n \in 1..Len(list) : IdOf(list[n]) = id}

\* C28: from a list with pairwise distinct ids, the ids stay pairwise
\* distinct after any sequence of integrateDbItem and removeDbItem calls;
\* integrateDbItem replaces the item of the same id at its position or
\* appends, and removeDbItem leaves no item with the removed id.
C28_IdsStayDistinct ==
    call = "dbItems" =>
        /\ DistinctIds(lsReturned)
        /\ (DbCalled /\ lsOp = "integrateDbItem") =>
             IF PositionsOf(lsBefore, IdOf(lsArg)) = {}
             THEN lsReturned = Append(lsBefore, lsArg)
             ELSE \E n \in PositionsOf(lsBefore, IdOf(lsArg)) :
                      lsReturned = [lsBefore EXCEPT ![n] = lsArg]
        /\ (DbCalled /\ lsOp = "removeDbItem") =>
             /\ PositionsOf(lsReturned, lsArg) = {}
             /\ Len(lsReturned) =
                    Len(lsBefore) - Cardinality(PositionsOf(lsBefore, lsArg))

C28_Witness ==
    /\ DbCalled /\ lsOp = "integrateDbItem" /\ lsIdKey = JSUndefined
    /\ lsArg = ItemA2
    /\ lsBefore = <<ItemB, ItemA, ItemC>>
    /\ lsReturned = <<ItemB, ItemA2, ItemC>>

QsCalled == call = "getQueryStringParams" /\ qsResult.outcome # "none"
\* the parameters of the query: an empty text is one parameter of no name
QsParams ==
    IF qsPieces = <<>> THEN <<Piece(<<>>, <<>>, <<>>, FALSE)>> ELSE qsPieces
\* the name of the n-th parameter: what is left of the prefix, less its
\* first character, belongs to the first name
QsName(n) ==
    IF n = 1 /\ qsPrefix # <<>> THEN Tail(qsPrefix) \o QsParams[n].name
    ELSE QsParams[n].name
QsNames == {QsName(n) : n \in 1..Len(QsParams)}
QsLast(name) ==
    CHOOSE n \in 1..Len(QsParams) :
        QsName(n) = name /\ \A m \in (n + 1)..Len(QsParams) : QsName(m) # name
QsEmptyQuery == qsQuery = JSNull \/ qsQuery.str = <<>>
QsExpected ==
    /\ qsResult.outcome = "returned"
    /\ IF QsEmptyQuery THEN qsResult.value = Blank
       ELSE /\ DOMAIN qsResult.value.members = QsNames
            /\ \A name \in QsNames :
                 qsResult.value.members[name] =
                     JSString(QsParams[QsLast(name)].value)
QsWellFormed ==
    QsEmptyQuery \/
        /\ \A n \in 1..Len(QsParams) : ~QsParams[n].malformed
        /\ <<"_", "_", "p", "r", "o", "t", "o", "_", "_">> \notin QsNames

UsReturned == UsCalled /\ usOutcome = "returned"
\* the definition oldState refers to under a state key, after the call
UsOldStateNow(sk) == heap[usBefore.state[sk]]

\* C25: updateSorting leaves its argument untouched: after the call the
\* definition under oldState[stateKey] has the key and the direction it had
\* before, and every other entry of the returned state equals the entry of
\* oldState.
C25_LeavesOldStateUntouched ==
    UsReturned =>
        /\ UsHadSorting =>
             UsOldStateNow(UsStateKey) = usBefore.heap[usBefore.state[UsStateKey]]
        /\ \A sk \in StateKeys \ {UsStateKey} :
             /\ compState[sk] = usBefore.state[sk]
             /\ compState[sk] # 0 =>
                  heap[compState[sk]] = usBefore.heap[usBefore.state[sk]]

\* C26: from initSorting(key, d) on, through any sequence of updateSorting
\* calls with defaultDirection null, "asc" or "desc", the direction of the
\* definition is "asc" or "desc" and its key is the sortKey selected last.
C26_DefinitionStaysWellFormed ==
    /\ [](call = "updateSorting" =>
            \A sk \in StateKeys :
                compState[sk] # 0 =>
                    /\ heap[compState[sk]].direction \in {"asc", "desc"}
                    /\ heap[compState[sk]].key \in SortKeys)
    /\ [][call = "updateSorting" =>
            \A sk \in StateKeys :
                compState'[sk] # 0 =>
                    heap'[compState'[sk]].key =
                        IF sk = (UsStateKey)' /\ usOutcome' = "returned"
                        THEN usArgs'.sortKey
                        ELSE heap[compState[sk]].key]_vars

C26_Witness ==
    /\ UsReturned /\ usArgs.sortKey = "date" /\ usArgs.defaultDirection = Null
    /\ UsStateKey = "tableSort"
    /\ UsOldSorting = [key |-> "name", direction |-> "desc"]
    /\ UsNewSorting = [key |-> "date", direction |-> "asc"]

CmpSwapped == sort(sorting, cmpB, cmpA)

\* C27: the comparator is antisymmetric, the sign of cmp(a, b) being the
\* opposite of the sign of cmp(b, a), and returns 0 when a and b have equal
\* values under the key, for string, numeric and boolean keys.
C27_ConsistentOrdering ==
    CmpCalled =>
        /\ OppositeSign(cmpResult, CmpSwapped)
        /\ CmpAVal = CmpBVal =>
             /\ cmpResult.outcome = "returned"
             /\ ~cmpResult.nan
             /\ cmpResult.num = 0

\* C29: once the body read has ended, whatever its outcome, the promise
\* settles: when nothing of the handler is left to run it is not pending,
\* and it is rejected if the read of a status >= 400 body failed or the
\* body of a status < 400 response is not valid JSON.
C29_SettlesWhateverTheRead ==
    (call = "restHandler" /\ bodyRead \in {"complete", "failed"}
       /\ ~ENABLED Next)
        => /\ promise.state # "pending"
           /\ (status >= 400 /\ bodyRead = "failed")
                => promise.state = "rejected"
           /\ (status < 400 /\ ~JSONParse(bodyText).ok)
                => promise.state = "rejected"

RmCalled == call = "reverseMapping" /\ rmOp = "reverseMapping"
\* the entry is the first one of its value's string form
RmFirst(p) ==
    \A q \in 1..(p - 1) :
        ~IsPrimitive(rmMapping[q].value)
            \/ JSToString(rmMapping[q].value) # JSToString(rmMapping[p].value)
RmKept == {p \in MapEntries : IsPrimitive(rmMapping[p].value) /\ RmFirst(p)}

\* C30: showWarning only controls the warnings: reverseMapping(m, true) and
\* reverseMapping(m, false) return the same mapping, without the entries of
\* non-primitive values and with the first key of a duplicate value.
C30_ShowWarningOnlyWarns ==
    RmCalled =>
        /\ rmResult = reverseMapping(rmMapping, ~rmWarn)
        /\ DOMAIN rmResult.members =
               {JSToString(rmMapping[p].value) : p \in RmKept}
        /\ \A p \in RmKept :
               rmResult.members[JSToString(rmMapping[p].value)] =
                   JSString(rmMapping[p].key)

====
